---- MODULE Spec2Model ----
(***************************************************************************)
(* Image-analysis orchestration pipeline of mexlefirst-backend:            *)
(* ImageProcessingService.processUploadedImage, the ConversationService    *)
(* message store and the ConversationGateway.                              *)
(*                                                                         *)
(* Every `await` of the TypeScript code is a step boundary: one action     *)
(* runs the code from one await to the next.  A call that the code does    *)
(* not await (conversationGateway.sendBotMessage in the orchestrator)      *)
(* becomes an independent entry of `pending` that advances on its own.     *)
(*                                                                         *)
(* Mongoose document.save() on a loaded document writes the changes made   *)
(* to that document: an array push is sent as an atomic $push, an assigned *)
(* scalar as a $set of the assigned value, and a write to an array element *)
(* by position (messages.i.isRead) carries the document version, which     *)
(* every $push increments.                                                 *)
(***************************************************************************)
EXTENDS Integers, Sequences, FiniteSets, TLC

\* ------------------------------------------------------------------ bounds
MaxImages == 1
MaxRuns == 2
MaxCodes == 1
MaxClientCalls == 1
MaxMessages == 2
MaxClock == 2
MaxTotal == 120
MaxListed == 2
MaxCoordinate == 2
MaxChallenges == 4

\* --------------------------------------------------------------- identities
Students == {"s1", "s2"}
Instructors == {"i1", "i2"}
Admins == {"a1"}
Users == Students \cup Instructors \cup Admins
Experiments == {"e1"}
Sockets == {"k1", "k2"}

\* client sockets of the /image-processing namespace
LegacySockets == {"p1", "p2"}
AllSockets == Sockets \cup LegacySockets
NoSocket == "none"

\* the gateway a socket connects to, by its namespace
Gateways == {"conversations", "image-processing"}
Gateway(k) == IF k \in Sockets THEN "conversations" ELSE "image-processing"

\* what a handshake can carry: no token at all, a token jwtService.verifyAsync
\* rejects, a token whose payload has no id, a token naming a user the user
\* store does not hold, or a token naming user u
BadTokens == {"none", "invalid", "no-id", "unknown"}
Tokens == BadTokens \cup Users
NoUser == "none"
NoConversation == 0

\* ConversationService.sendBotMessage: new Types.ObjectId('000000000000000000000000')
BotId == "bot"

\* shared/enums: UserRole and ParticipantType
UserRole(u) ==
  IF u \in Students THEN "student"
  ELSE IF u \in Instructors THEN "instructor"
  ELSE "admin"

ParticipantType == {"student", "instructor", "admin", "bot"}

\* experiment.schema: instructorId is required on every experiment
ExperimentInstructor(e) == "i1"

VARIABLES
  images,         \* Image Record store: sequence of records, id = position
  runs,           \* processUploadedImage invocations, id = position
  conversations,  \* Conversation store: sequence of documents, id = position
  pending,        \* in-flight store calls that nobody awaits or that span awaits
  clock,          \* the time new Date() returns
  storeDown,      \* TRUE while the database rejects every operation
  sockets,        \* socket -> client.user.id (NoUser before authentication)
  rooms,          \* pairs <<c, k>>: socket k has joined conversation:<c>
  emitted,        \* events emitted to rooms, and the last event or HTTP
                  \* response sent to a single client
  handshakes,     \* socket -> the token of its handshake, the await its
                  \* handleConnection is suspended at ("closed": no
                  \* connection, "open": authenticated), and the rank of the
                  \* session among its gateway's authenticated sessions
                  \* (1 = oldest, 0 = not authenticated), which the code
                  \* does not keep
  connectedClients, \* gateway -> its Map userId -> socket
  uploads,        \* the ImageResponseDto uploadImage returned for each record
  args,           \* the arguments of a call of a pure function under study
  returned,       \* <<what that call returned>>, <<>> before it returns
  progress,       \* UserChallengeProgress store: user -> challenge -> record
  submissions     \* the last answer of submitAnswer or submitPhoto

vars == <<images, runs, conversations, pending, clock, storeDown, sockets, rooms, emitted,
          handshakes, connectedClients, uploads, args, returned, progress,
          submissions>>

\* ------------------------------------------------------- detector client
\* what the detector endpoint does with the POST of callThirdPartyApi: it
\* answers 200 with a body that parses to a response, the request fails, it
\* answers another status, the body does not parse, or the body parses to a
\* falsy value
CallOutcomes == {"200", "request-error", "status", "unparsable", "no-response"}

\* what happens to the GET of downloadProcessedImage: the file is written,
\* the request fails, the status is not 200, or the write stream fails
DownloadOutcomes == {"saved", "request-error", "status", "write-error"}

\* a ThirdPartyDetectedCode: its data and its bounding box
ThirdPartyDetectedCode(data, x, y, width, height) ==
  [data |-> data, position |-> [x |-> x, y |-> y, width |-> width, height |-> height]]

\* the detected_codes of an answer with n codes, one unit box per code
DetectedAt(n) == [i \in 1..n |-> ThirdPartyDetectedCode("code", i, i, 1, 1)]

\* every outcome of one processImage call: the endpoint's answer with its
\* detected_codes (has_codes: the key is there) and possibly an image_url,
\* and the outcome of the download
DetectorOutcomes ==
  [call : CallOutcomes \ {"200"}, has_codes : {TRUE}, detected_codes : {DetectedAt(0)},
   image_url : {FALSE}, download : {"saved"}]
    \cup [call : {"200"}, has_codes : {TRUE},
          detected_codes : {DetectedAt(n) : n \in 0..MaxCodes},
          image_url : BOOLEAN, download : DownloadOutcomes]

\* the outcomes the orchestrator is run with: the request fails, or the
\* endpoint answers and the download, if any, succeeds or fails
DetectorResponses ==
  {resp \in DetectorOutcomes : /\ resp.call \in {"200", "request-error"}
                               /\ resp.download \in {"saved", "request-error"}}

\* the polygon of a bounding box, lines 745-751
Points(position) ==
  <<[x |-> position.x, y |-> position.y],
    [x |-> position.x + position.width, y |-> position.y],
    [x |-> position.x + position.width, y |-> position.y + position.height],
    [x |-> position.x, y |-> position.y + position.height]>>

\* convertThirdPartyResponse with the codes in reverse order
convertThirdPartyResponseReversed(response) ==
  IF ~response.has_codes \/ Len(response.detected_codes) = 0 THEN <<>>
  ELSE [i \in DOMAIN response.detected_codes |->
          LET code == response.detected_codes[Len(response.detected_codes) + 1 - i] IN
          [data |-> code.data, points |-> Points(code.position), readable |-> TRUE]]

\* convertThirdPartyResponse marking the codes unreadable
convertThirdPartyResponseUnreadable(response) ==
  IF ~response.has_codes \/ Len(response.detected_codes) = 0 THEN <<>>
  ELSE [i \in DOMAIN response.detected_codes |->
          LET code == response.detected_codes[i] IN
          [data |-> code.data, points |-> Points(code.position), readable |-> FALSE]]

\* convertThirdPartyResponse: no list or an empty one gives []; otherwise
\* one DetectedCode per returned code, in order, with its polygon and
\* readable: true
convertThirdPartyResponse(response) ==
  IF ~response.has_codes \/ Len(response.detected_codes) = 0 THEN <<>>
  ELSE [i \in DOMAIN response.detected_codes |->
          LET code == response.detected_codes[i] IN
          [data |-> code.data, points |-> Points(code.position), readable |-> TRUE]]

CountReadable(codes) == Cardinality({i \in DOMAIN codes : codes[i].readable})

\* generateReport: Math.round((readable / total) * 100) compared with 75 and 50
RoundedPercentage(readable, total) == (200 * readable + total) \div (2 * total)

generateReport(codes) ==
  LET totalCodes == Len(codes)
      readableCodes == CountReadable(codes)
      unreadableCodes == totalCodes - readableCodes
  IN IF totalCodes = 0 THEN "no-codes"
     ELSE IF unreadableCodes = 0
          THEN (IF totalCodes = 1 THEN "one-readable" ELSE "all-readable")
          ELSE IF RoundedPercentage(readableCodes, totalCodes) >= 75 THEN "tier-1"
               ELSE IF RoundedPercentage(readableCodes, totalCodes) >= 50 THEN "tier-2"
               ELSE "tier-3"

\* a list of `total` detected codes of which the first `readable` are readable
CodesWith(total, readable) == [i \in 1..total |-> [readable |-> i <= readable]]

\* a ProcessingResult.  `thrown` is bookkeeping of the model: TRUE stands for
\* a processImage call that rejects instead of returning
Failure(error, thrown) ==
  [success |-> FALSE, detectedCodes |-> <<>>, processedImagePath |-> FALSE,
   report |-> "", totalCodes |-> 0, readableCodes |-> 0, unreadableCodes |-> 0,
   error |-> error, thrown |-> thrown]

\* callThirdPartyApi: the error it rejects with, "" when it resolves
callThirdPartyApi(resp) ==
  IF resp.call \in {"200", "no-response"} THEN ""
  ELSE IF resp.call = "request-error" THEN "request error"
  ELSE IF resp.call = "status" THEN "API returned status"
  ELSE "Failed to parse API response"

\* downloadProcessedImage: the error it rejects with, "" when it resolves
downloadProcessedImage(resp) ==
  IF resp.download = "saved" THEN ""
  ELSE IF resp.download = "request-error" THEN "download request error"
  ELSE IF resp.download = "status" THEN "Failed to download processed image"
  ELSE "write error"

\* processImage, lines 619-667: the try block; an exception of an awaited
\* call leaves it
TryProcessImage(resp) ==
  IF callThirdPartyApi(resp) # "" THEN Failure(callThirdPartyApi(resp), TRUE)
  ELSE IF resp.call = "no-response" THEN Failure("No response from 3rd party service", FALSE)
  ELSE IF resp.image_url /\ downloadProcessedImage(resp) # ""
  THEN Failure(downloadProcessedImage(resp), TRUE)
  ELSE LET codes == convertThirdPartyResponse(resp) IN
       [success |-> TRUE, detectedCodes |-> codes,
        processedImagePath |-> resp.image_url,
        report |-> generateReport(codes),
        totalCodes |-> Len(codes),
        readableCodes |-> CountReadable(codes),
        unreadableCodes |-> Len(codes) - CountReadable(codes),
        error |-> "", thrown |-> FALSE]

\* processImage without its catch block
processImageUncaught(resp) == TryProcessImage(resp)

\* processImage: the catch block, lines 669-675, turns every exception of
\* the try block into a failure Result with the exception's message
processImage(resp) ==
  LET result == TryProcessImage(resp) IN
  IF result.thrown THEN Failure(result.error, FALSE) ELSE result

\* the result field of a run before its detector call
NoResult == Failure("", FALSE)

\* ---------------------------------------------------- conversation store
ConversationIds == 1..Len(conversations)

\* conversation.schema Message.  `run` is bookkeeping of the model only: the
\* processUploadedImage invocation that issued a bot message (0 otherwise);
\* it stands for metadata.imageId and tells two runs on one image apart.
Message(sentAt, senderId, senderType, messageType, content, run) ==
  [senderId |-> senderId, senderType |-> senderType,
   messageType |-> messageType, content |-> content, isRead |-> FALSE,
   sentAt |-> sentAt, run |-> run]

\* the messages the store holds in conversations 1..n, and the appends that
\* calls in flight may still make; together they are kept below MaxMessages
RECURSIVE StoredMessages(_)
StoredMessages(n) ==
  IF n = 0 THEN 0 ELSE Len(conversations[n].messages) + StoredMessages(n - 1)

AppendsInFlight ==
  Cardinality({call \in pending : call.op \in {"send", "bot"}
                 \/ (call.op = "create" /\ call.content # "")})

\* the filter {experimentId, studentId} of findOne / getConversationsByStudent
MatchingConversations(experimentId, studentId) ==
  {c \in ConversationIds : /\ conversations[c].experimentId = experimentId
                           /\ conversations[c].studentId = studentId}

\* getConversationsByStudent(studentId, {experimentId, page: 1, limit: 1}):
\* the match with the greatest lastMessageAt (the oldest document among equal
\* ones), NoConversation when none
getConversationsByStudent(studentId, experimentId) ==
  LET found == MatchingConversations(experimentId, studentId) IN
  IF found = {} THEN NoConversation
  ELSE CHOOSE c \in found :
         \A d \in found :
            \/ conversations[d].lastMessageAt < conversations[c].lastMessageAt
            \/ conversations[d].lastMessageAt = conversations[c].lastMessageAt /\ c <= d

\* the document createConversation builds before it saves it
NewConversation(experimentId, creatorId, initialMessage, stamp) ==
  [experimentId |-> experimentId,
   studentId |-> creatorId,
   instructorId |-> ExperimentInstructor(experimentId),
   messages |-> IF initialMessage # ""
                THEN <<Message(stamp, creatorId, "student", "text", initialMessage, 0)>>
                ELSE <<>>,
   lastMessageAt |-> stamp,
   lastMessageBy |-> creatorId,
   unreadCount |-> IF initialMessage # "" THEN 1 ELSE 0]

\* validateMessagePermission without the studentId comparison
validateMessagePermissionAnyStudent(conversation, senderId, senderType) ==
  CASE senderType = "instructor" ->
         ~(conversation.instructorId # NoUser /\ conversation.instructorId # senderId)
    [] senderType \in {"student", "bot", "admin"} -> TRUE
    [] OTHER -> FALSE

\* validateMessagePermission: TRUE when no ForbiddenException is thrown
validateMessagePermission(conversation, senderId, senderType) ==
  CASE senderType = "student" -> conversation.studentId = senderId
    [] senderType = "instructor" ->
         ~(conversation.instructorId # NoUser /\ conversation.instructorId # senderId)
    [] senderType = "bot" -> TRUE
    [] senderType = "admin" -> TRUE
    [] OTHER -> FALSE

\* validateViewPermission with the student branch testing the role only
validateViewPermissionAnyStudent(conversation, userId, userRole) ==
  \/ userRole \in {"admin", "student"}
  \/ /\ userRole = "instructor"
     /\ conversation.instructorId # NoUser
     /\ conversation.instructorId = userId

\* validateViewPermission with the instructor branch testing the role only
validateViewPermissionAnyInstructor(conversation, userId, userRole) ==
  \/ userRole \in {"admin", "instructor"}
  \/ userRole = "student" /\ conversation.studentId = userId

\* validateViewPermission: TRUE when no ForbiddenException is thrown
validateViewPermission(conversation, userId, userRole) ==
  \/ userRole = "admin"
  \/ userRole = "student" /\ conversation.studentId = userId
  \/ /\ userRole = "instructor"
     /\ conversation.instructorId # NoUser
     /\ conversation.instructorId = userId

\* save() after messages.unshift(message) instead of messages.push(message)
UnshiftMessage(c, message, unreadCount) ==
  [conversations EXCEPT ![c] =
     [@ EXCEPT !.messages = <<message>> \o @,
               !.lastMessageAt = message.sentAt,
               !.lastMessageBy = message.senderId,
               !.unreadCount = unreadCount]]

\* what save() of a pushed message writes: $push of the message, $set of
\* lastMessageAt, lastMessageBy and of the unreadCount computed from the load
PushMessage(c, message, unreadCount) ==
  [conversations EXCEPT ![c] =
     [@ EXCEPT !.messages = Append(@, message),
               !.lastMessageAt = message.sentAt,
               !.lastMessageBy = message.senderId,
               !.unreadCount = unreadCount]]

\* ------------------------------------------------------------ image store
ImageIds == 1..Len(images)

\* an id no record has: of a record that was deleted or never stored
MissingImage == MaxImages + 1

\* image.schema defaults of a record as uploadImage creates it
NewImage(experimentId, userId) ==
  [experimentId |-> experimentId, userId |-> userId,
   processingStatus |-> "pending", feedback |-> "",
   detectedComponents |-> <<>>, processedImageUrl |-> FALSE]

ImageFields == {"processingStatus", "feedback", "detectedComponents", "processedImageUrl"}

\* the document after the assignments `assigned` (field -> value)
Assign(doc, assigned) ==
  [f \in DOMAIN doc |-> IF f \in DOMAIN assigned THEN assigned[f] ELSE doc[f]]

\* image.save(): a $set of the paths whose assigned value differs from the
\* value the document held
SaveImage(i, doc, assigned) ==
  [images EXCEPT ![i] =
     [f \in DOMAIN @ |->
        IF f \in DOMAIN assigned /\ assigned[f] # doc[f] THEN assigned[f] ELSE @[f]]]

\* ------------------------------------------------- un-awaited store calls
\* One entry per call of ConversationGateway.sendBotMessage, of
\* ConversationService.sendMessage / markMessagesAsRead / createConversation
\* made for a client.  stage names the await the call is suspended at; doc
\* holds what the call keeps between its awaits.
Call(op, run, user, socket, experimentId, c, messageType, content, stage, doc) ==
  [op |-> op, run |-> run, user |-> user, socket |-> socket,
   experimentId |-> experimentId, conversationId |-> c,
   messageType |-> messageType, content |-> content, stage |-> stage, doc |-> doc]

\* conversationGateway.sendBotMessage(conversationId, content, messageType, ..)
\* as the orchestrator calls it: started, not awaited
BotCall(r, c, messageType, content) ==
  Call("bot", r, BotId, NoUser, "none", c, messageType, content, "find", <<>>)

\* the addressee of an emit: server.to('conversation:<c>'), server.to('user:<u>')
\* or one client socket; `http` is the caller of a REST endpoint
ToRoom(c) == [room |-> c, user |-> NoUser, socket |-> NoUser, http |-> NoUser]
ToUser(u) == [room |-> NoConversation, user |-> u, socket |-> NoUser, http |-> NoUser]
ToSocket(k) == [room |-> NoConversation, user |-> NoUser, socket |-> k, http |-> NoUser]
ToCaller(u) == [room |-> NoConversation, user |-> NoUser, socket |-> NoUser, http |-> u]

NoMessage == Message(0, NoUser, "none", "none", "", 0)

\* the payload {message: error.message} of an 'error' event or error response
ErrorPayload(text) == Message(0, NoUser, "none", "none", text, 0)

Forbidden == "Forbidden"
NotAuthenticated == "User not authenticated"
VersionError == "VersionError"

\* a gateway event about conversation c
Event(ev, c, to, message) ==
  [ev |-> ev, conversationId |-> c, to |-> to, message |-> message]

\* client.emit(ev, ..) on the socket of a call, or the HTTP response to the
\* caller of the REST endpoint
Reply(call, ev, message) ==
  Event(ev, call.conversationId,
        IF call.socket # NoUser THEN ToSocket(call.socket) ELSE ToCaller(call.user),
        message)

\* `emitted` after event e went to one client
EmitToClient(e) ==
  {x \in emitted : x.to.socket = NoUser /\ x.to.http = NoUser} \cup {e}

\* the emit to the conversation room, then notifyConversationParticipants
FanOut(c, conversation, event, message) ==
  {Event("new-message", c, ToRoom(c), message),
   Event(event, c, ToUser(conversation.studentId), message)}
  \cup (IF conversation.instructorId # NoUser
        THEN {Event(event, c, ToUser(conversation.instructorId), message)}
        ELSE {})

\* ------------------------------------------------------------ orchestrator
RunIds == 1..Len(runs)

NoImage == NewImage("none", NoUser)

\* a processUploadedImage invocation about to execute its first await
NewRun(imageId) ==
  [imageId |-> imageId, pc |-> "load", caught |-> FALSE, image |-> NoImage,
   conversation |-> NoConversation, doc |-> <<>>, result |-> NoResult,
   error |-> "", updates |-> 0, complete |-> <<>>]

\* an exception at the current await: the outer catch block takes over, or,
\* inside the catch block, the inner catch logs it and the run ends
Throw(run, message) ==
  IF run.caught THEN [run EXCEPT !.pc = "done"]
  ELSE [run EXCEPT !.pc = "catchLoad", !.caught = TRUE, !.error = message]

\* error.message of what the store calls throw
StoreError == "store unavailable"
AlreadyExists == "Conversation already exists for this experiment and student"
ExperimentNotFound == "Experiment not found"

\* imageProcessingGateway.sendProcessingComplete(userId, {status, counts})
CompletePayload(status, result) ==
  [status |-> status, totalCodes |-> result.totalCodes,
   readableCodes |-> result.readableCodes,
   unreadableCodes |-> result.unreadableCodes]

\* the ImageResponseDto uploadImage builds from the document save() returned
ImageResponseDto(id, result) ==
  [id |-> id, feedback |-> result.feedback, processingStatus |-> result.processingStatus]

\* uploadImage that awaits the run up to its first save before it answers
uploadImageAwaiting(student, experimentId) ==
  LET result == NewImage(experimentId, student)
      image == [result EXCEPT !.processingStatus = "processing"] IN
  /\ Len(images) < MaxImages
  /\ Len(runs) < MaxRuns
  /\ ~storeDown
  /\ images' = Append(images, image)
  /\ runs' = Append(runs, [NewRun(Len(images) + 1) EXCEPT !.pc = "findConversation",
                                                          !.image = image])
  /\ uploads' = Append(uploads, ImageResponseDto(Len(images) + 1, image))
  /\ UNCHANGED <<conversations, pending, clock, storeDown, sockets, rooms, emitted,
               handshakes, connectedClients, args, returned,
               progress, submissions>>

\* ImageService.uploadImage, lines 266-296: the record is stored with the
\* schema defaults, queueImageProcessing schedules the run with setImmediate
\* (it has taken no step when uploadImage returns), and the response is
\* built from the stored document
uploadImage(student, experimentId) ==
  LET result == NewImage(experimentId, student) IN
  /\ Len(images) < MaxImages
  /\ Len(runs) < MaxRuns
  /\ ~storeDown
  /\ images' = Append(images, result)
  /\ runs' = Append(runs, NewRun(Len(images) + 1))
  /\ uploads' = Append(uploads, ImageResponseDto(Len(images) + 1, result))
  /\ UNCHANGED <<conversations, pending, clock, storeDown, sockets, rooms, emitted,
               handshakes, connectedClients, args, returned,
               progress, submissions>>

\* reprocessImage resetting the record to pending before it queues the run
reprocessImageReset(imageId) ==
  /\ Len(runs) < MaxRuns
  /\ runs' = Append(runs, NewRun(imageId))
  /\ images' = [images EXCEPT ![imageId] = [@ EXCEPT !.processingStatus = "pending"]]
  /\ UNCHANGED <<conversations, pending, clock, storeDown, sockets, rooms, emitted,
               handshakes, connectedClients, uploads, args, returned,
               progress, submissions>>

\* ImageProcessingService.reprocessImage
reprocessImage(imageId) ==
  /\ Len(runs) < MaxRuns
  /\ runs' = Append(runs, NewRun(imageId))
  /\ UNCHANGED <<images, conversations, pending, clock, storeDown, sockets, rooms, emitted,
               handshakes, connectedClients, uploads, args, returned,
               progress, submissions>>

\* ImageService.addFeedback
addFeedback(imageId) ==
  /\ ~storeDown
  /\ images' = [images EXCEPT ![imageId] =
                  [@ EXCEPT !.feedback = "instructor", !.processingStatus = "accepted"]]
  /\ UNCHANGED <<runs, conversations, pending, clock, storeDown, sockets, rooms, emitted,
               handshakes, connectedClients, uploads, args, returned,
               progress, submissions>>

\* findById with a failure notification where lines 41-44 only log and return
LoadImageNotifying(r) ==
  LET run == runs[r] IN
  /\ run.pc = "load"
  /\ runs' = [runs EXCEPT ![r] =
       IF storeDown THEN Throw(run, StoreError)
       ELSE IF run.imageId \notin ImageIds
       THEN [run EXCEPT !.pc = "done",
               !.complete = Append(@, CompletePayload("failed", NoResult))]
       ELSE [run EXCEPT !.pc = "setProcessing", !.image = images[run.imageId]]]
  /\ UNCHANGED <<images, conversations, pending, clock, storeDown, sockets, rooms, emitted,
               handshakes, connectedClients, uploads, args, returned,
               progress, submissions>>

\* processUploadedImage, lines 35-44: findById(imageId)
LoadImage(r) ==
  LET run == runs[r] IN
  /\ run.pc = "load"
  /\ runs' = [runs EXCEPT ![r] =
       IF storeDown THEN Throw(run, StoreError)
       ELSE IF run.imageId \notin ImageIds THEN [run EXCEPT !.pc = "done"]
       ELSE [run EXCEPT !.pc = "setProcessing", !.image = images[run.imageId]]]
  /\ UNCHANGED <<images, conversations, pending, clock, storeDown, sockets, rooms, emitted,
               handshakes, connectedClients, uploads, args, returned,
               progress, submissions>>

\* processUploadedImage, lines 47-48: processingStatus = 'processing'; save()
SetProcessing(r) ==
  LET run == runs[r]
      assigned == [processingStatus |-> "processing"]
  IN
  /\ run.pc = "setProcessing"
  /\ IF storeDown
     THEN /\ runs' = [runs EXCEPT ![r] = Throw([run EXCEPT !.image = Assign(run.image, assigned)], StoreError)]
          /\ UNCHANGED images
     ELSE /\ images' = SaveImage(run.imageId, run.image, assigned)
          /\ runs' = [runs EXCEPT ![r] =
               [run EXCEPT !.pc = "findConversation", !.image = Assign(run.image, assigned)]]
  /\ UNCHANGED <<conversations, pending, clock, storeDown, sockets, rooms, emitted,
               handshakes, connectedClients, uploads, args, returned,
               progress, submissions>>

\* the code that follows `await findOrCreateConversation(..)`.  In the try
\* block (lines 62-79) the 'started' bot message is issued and the legacy
\* update sent; in the catch block (lines 225-246) the error message is issued
\* and the failure notified.
ConversationResolved(r, run, c) ==
  IF run.caught
  THEN /\ runs' = [runs EXCEPT ![r] =
            [run EXCEPT !.pc = "done", !.conversation = c, !.doc = <<>>,
               !.complete = Append(@, CompletePayload("failed", NoResult))]]
       /\ pending' = pending \cup {BotCall(r, c, "system", "error")}
  ELSE /\ runs' = [runs EXCEPT ![r] =
            [run EXCEPT !.pc = "detect", !.conversation = c, !.doc = <<>>,
               !.updates = @ + 1]]
       /\ pending' = pending \cup {BotCall(r, c, "system", "started")}

\* findOrCreateConversation, line 311: the initialMessage of a run's create
Submitted == "Image submitted for analysis"

\* findOrCreateConversation, lines 298-306: getConversationsByStudent
FindConversation(r) ==
  LET run == runs[r]
      c == getConversationsByStudent(run.image.userId, run.image.experimentId)
  IN
  /\ run.pc = "findConversation"
  /\ IF storeDown
     THEN runs' = [runs EXCEPT ![r] = Throw(run, StoreError)] /\ UNCHANGED pending
     ELSE IF c # NoConversation
          THEN ConversationResolved(r, run, c)
          ELSE runs' = [runs EXCEPT ![r] = [run EXCEPT !.pc = "createExperiment"]]
               /\ UNCHANGED pending
  /\ UNCHANGED <<images, conversations, clock, storeDown, sockets, rooms, emitted,
               handshakes, connectedClients, uploads, args, returned,
               progress, submissions>>

\* createConversation, lines 24-27: experimentModel.findById
CreateExperiment(r) ==
  LET run == runs[r] IN
  /\ run.pc = "createExperiment"
  /\ runs' = [runs EXCEPT ![r] =
       IF storeDown THEN Throw(run, StoreError)
       ELSE IF run.image.experimentId \notin Experiments THEN Throw(run, ExperimentNotFound)
       ELSE [run EXCEPT !.pc = "createCheck"]]
  /\ UNCHANGED <<images, conversations, pending, clock, storeDown, sockets, rooms, emitted,
               handshakes, connectedClients, uploads, args, returned,
               progress, submissions>>

\* createConversation, lines 34-67: findOne({experimentId, studentId}); a
\* match throws BadRequestException, otherwise the document is built
CreateCheck(r) ==
  LET run == runs[r] IN
  /\ run.pc = "createCheck"
  /\ runs' = [runs EXCEPT ![r] =
       IF storeDown THEN Throw(run, StoreError)
       ELSE IF MatchingConversations(run.image.experimentId, run.image.userId) # {}
       THEN Throw(run, AlreadyExists)
       ELSE [run EXCEPT !.pc = "createSave",
               !.doc = <<NewConversation(run.image.experimentId, run.image.userId, Submitted, clock)>>]]
  /\ UNCHANGED <<images, conversations, pending, clock, storeDown, sockets, rooms, emitted,
               handshakes, connectedClients, uploads, args, returned,
               progress, submissions>>

\* createConversation, lines 69-70: conversation.save() inserts the document
CreateSave(r) ==
  LET run == runs[r] IN
  /\ run.pc = "createSave"
  /\ IF storeDown
     THEN runs' = [runs EXCEPT ![r] = Throw(run, StoreError)] /\ UNCHANGED <<conversations, pending>>
     ELSE /\ conversations' = Append(conversations, run.doc[1])
          /\ ConversationResolved(r, run, Len(conversations) + 1)
  /\ UNCHANGED <<images, clock, storeDown, sockets, rooms, emitted, handshakes, connectedClients, uploads, args, returned,
               progress, submissions>>

\* processUploadedImage, lines 82-96: thirdPartyDetector.processImage
\* answers for the outcome resp; a rejection would go to the catch block
Detect(r, resp) ==
  LET run == runs[r]
      result == processImage(resp) IN
  /\ run.pc = "detect"
  /\ runs' = [runs EXCEPT ![r] =
       IF result.thrown THEN Throw(run, result.error)
       ELSE [run EXCEPT !.pc = "saveResult", !.result = result]]
  /\ UNCHANGED <<images, conversations, pending, clock, storeDown, sockets, rooms, emitted,
               handshakes, connectedClients, uploads, args, returned,
               progress, submissions>>

\* processUploadedImage, line 93: the endpoint accepted the request of
\* processImage and never answers, or the download never ends: neither
\* request has a timeout, processImage stays pending and the run with it
DetectorSilent(r) ==
  LET run == runs[r] IN
  /\ run.pc = "detect"
  /\ runs' = [runs EXCEPT ![r] = [run EXCEPT !.pc = "detectPending"]]
  /\ UNCHANGED <<images, conversations, pending, clock, storeDown, sockets, rooms, emitted,
               handshakes, connectedClients, uploads, args, returned,
               progress, submissions>>

\* the assignment with the status test of line 102 inverted
ResultAssignmentInverted(result) ==
  IF result.success
  THEN LET base == [detectedComponents |-> result.detectedCodes,
                    feedback |-> result.report,
                    processingStatus |->
                      IF result.unreadableCodes = 0 THEN "needs_review" ELSE "completed"]
       IN IF result.processedImagePath
          THEN base @@ [processedImageUrl |-> TRUE]
          ELSE base
  ELSE [processingStatus |-> "failed", feedback |-> "processing-failed"]

\* lines 100-107 and 175-176: what the run assigns before image.save()
ResultAssignment(result) ==
  IF result.success
  THEN LET base == [detectedComponents |-> result.detectedCodes,
                    feedback |-> result.report,
                    processingStatus |->
                      IF result.unreadableCodes = 0 THEN "completed" ELSE "needs_review"]
       IN IF result.processedImagePath
          THEN base @@ [processedImageUrl |-> TRUE]
          ELSE base
  ELSE [processingStatus |-> "failed", feedback |-> "processing-failed"]

\* lines 115-158 and 182-191: the bot messages issued after the save
ResultMessages(r, c, result) ==
  IF result.success
  THEN {BotCall(r, c, "feedback", "feedback"), BotCall(r, c, "system", "circuit")}
       \cup (IF result.unreadableCodes > 0
             THEN {BotCall(r, c, "system", "guidance")}
             ELSE {})
  ELSE {BotCall(r, c, "system", "error")}

\* processUploadedImage, lines 98-203: image.save() of the result, then the
\* bot messages and the legacy completion notification
SaveResult(r) ==
  LET run == runs[r]
      assigned == ResultAssignment(run.result)
      image == Assign(run.image, assigned)
  IN
  /\ run.pc = "saveResult"
  /\ IF storeDown
     THEN /\ runs' = [runs EXCEPT ![r] = Throw([run EXCEPT !.image = image], StoreError)]
          /\ UNCHANGED <<images, pending>>
     ELSE /\ images' = SaveImage(run.imageId, run.image, assigned)
          /\ pending' = pending \cup ResultMessages(r, run.conversation, run.result)
          /\ runs' = [runs EXCEPT ![r] =
               [run EXCEPT !.pc = "done", !.image = image,
                  !.complete = Append(@, CompletePayload(image.processingStatus, run.result))]]
  /\ UNCHANGED <<conversations, clock, storeDown, sockets, rooms, emitted,
               handshakes, connectedClients, uploads, args, returned,
               progress, submissions>>

\* catch block, lines 210-211: findById(imageId) again
CatchLoad(r) ==
  LET run == runs[r] IN
  /\ run.pc = "catchLoad"
  /\ runs' = [runs EXCEPT ![r] =
       IF storeDown \/ run.imageId \notin ImageIds THEN [run EXCEPT !.pc = "done"]
       ELSE [run EXCEPT !.pc = "catchSave", !.image = images[run.imageId]]]
  /\ UNCHANGED <<images, conversations, pending, clock, storeDown, sockets, rooms, emitted,
               handshakes, connectedClients, uploads, args, returned,
               progress, submissions>>

\* catch block, lines 212-214: processingStatus = 'failed'; save()
CatchSave(r) ==
  LET run == runs[r]
      assigned == [processingStatus |-> "failed", feedback |-> "unexpected-error"]
  IN
  /\ run.pc = "catchSave"
  /\ IF storeDown
     THEN runs' = [runs EXCEPT ![r] = [run EXCEPT !.pc = "done"]] /\ UNCHANGED images
     ELSE /\ images' = SaveImage(run.imageId, run.image, assigned)
          /\ runs' = [runs EXCEPT ![r] =
               [run EXCEPT !.pc = "findConversation", !.image = Assign(run.image, assigned)]]
  /\ UNCHANGED <<conversations, pending, clock, storeDown, sockets, rooms, emitted,
               handshakes, connectedClients, uploads, args, returned,
               progress, submissions>>

\* --------------------------------------------- conversation store calls
\* ConversationService.sendBotMessage, lines 329-343: findById, then the
\* message is built (new ObjectId, sentAt = new Date()) and unreadCount += 1
\* is applied to the loaded document.  An exception is logged by the gateway
\* and the call ends (gateway lines 261-263).
BotFind(call) ==
  /\ call.op = "bot" /\ call.stage = "find"
  /\ IF storeDown \/ call.conversationId \notin ConversationIds
     THEN pending' = pending \ {call}
     ELSE pending' = (pending \ {call}) \cup
            {[call EXCEPT !.stage = "save",
                !.doc = <<Message(clock, BotId, "bot", call.messageType, call.content, call.run),
                          conversations[call.conversationId].unreadCount + 1>>]}
  /\ UNCHANGED <<images, runs, conversations, clock, storeDown, sockets, rooms, emitted,
               handshakes, connectedClients, uploads, args, returned,
               progress, submissions>>

\* ConversationService.sendBotMessage, lines 345-351, then the gateway's
\* emits, lines 247-258
BotSave(call) ==
  /\ call.op = "bot" /\ call.stage = "save"
  /\ pending' = pending \ {call}
  /\ IF storeDown
     THEN UNCHANGED <<conversations, emitted>>
     ELSE /\ conversations' = PushMessage(call.conversationId, call.doc[1], call.doc[2])
          /\ emitted' = emitted \cup
               FanOut(call.conversationId, conversations[call.conversationId],
                      "bot-message-received", call.doc[1])
  /\ UNCHANGED <<images, runs, clock, storeDown, sockets, rooms, handshakes, connectedClients, uploads, args, returned,
               progress, submissions>>

\* ConversationGateway.sendBotMessage called on an existing conversation
sendBotMessage(c, messageType, content) ==
  /\ c \in ConversationIds
  /\ StoredMessages(Len(conversations)) + AppendsInFlight < MaxMessages
  /\ pending' = pending \cup {BotCall(0, c, messageType, content)}
  /\ UNCHANGED <<images, runs, conversations, clock, storeDown, sockets, rooms, emitted,
               handshakes, connectedClients, uploads, args, returned,
               progress, submissions>>

ClientCalls == {call \in pending : call.op # "bot"}

\* ConversationController.createConversation: POST /conversations by user
\* `creatorId`; the service call is suspended at experimentModel.findById
createConversation(creatorId, experimentId, initialMessage) ==
  /\ Cardinality(ClientCalls) < MaxClientCalls
  /\ initialMessage => StoredMessages(Len(conversations)) + AppendsInFlight < MaxMessages
  /\ pending' = pending \cup
       {Call("create", 0, creatorId, NoUser, experimentId, NoConversation, "text",
             IF initialMessage THEN "initial" ELSE "", "experiment", <<>>)}
  /\ UNCHANGED <<images, runs, conversations, clock, storeDown, sockets, rooms, emitted,
               handshakes, connectedClients, uploads, args, returned,
               progress, submissions>>

\* createConversation, lines 24-27, for a client
CreateCallExperiment(call) ==
  /\ call.op = "create" /\ call.stage = "experiment"
  /\ pending' = IF storeDown \/ call.experimentId \notin Experiments
                THEN pending \ {call}
                ELSE (pending \ {call}) \cup {[call EXCEPT !.stage = "check"]}
  /\ UNCHANGED <<images, runs, conversations, clock, storeDown, sockets, rooms, emitted,
               handshakes, connectedClients, uploads, args, returned,
               progress, submissions>>

\* createConversation, lines 34-67, for a client
CreateCallCheck(call) ==
  /\ call.op = "create" /\ call.stage = "check"
  /\ pending' = IF storeDown \/ MatchingConversations(call.experimentId, call.user) # {}
                THEN pending \ {call}
                ELSE (pending \ {call}) \cup
                       {[call EXCEPT !.stage = "save",
                           !.doc = <<NewConversation(call.experimentId, call.user,
                                                     call.content, clock)>>]}
  /\ UNCHANGED <<images, runs, conversations, clock, storeDown, sockets, rooms, emitted,
               handshakes, connectedClients, uploads, args, returned,
               progress, submissions>>

\* createConversation, lines 69-70, for a client
CreateCallSave(call) ==
  /\ call.op = "create" /\ call.stage = "save"
  /\ pending' = pending \ {call}
  /\ conversations' = IF storeDown THEN conversations
                      ELSE Append(conversations, call.doc[1])
  /\ UNCHANGED <<images, runs, clock, storeDown, sockets, rooms, emitted,
               handshakes, connectedClients, uploads, args, returned,
               progress, submissions>>

\* a socket without a connection
Closed == [token |-> "none", pc |-> "closed", rank |-> 0]

\* socket k has a connection to its gateway (authenticated or not yet)
Connected(k) == handshakes[k].pc \in {"verify", "findUser", "open"}

\* the authenticated sessions of the gateway of socket k
Sessions(k) == {o \in AllSockets : Gateway(o) = Gateway(k) /\ handshakes[o].pc = "open"}

\* mapUserRoleToParticipantType
mapUserRoleToParticipantType(userRole) == userRole

\* conversationService.sendMessage(conversationId, dto, senderId, senderType)
\* started for a client: suspended at findById
SendCall(u, k, c) == Call("send", 0, u, k, "none", c, "text", "text", "find", <<>>)

\* handleSendMessage, lines 165-178: an unauthenticated socket gets an error;
\* otherwise the service call starts
handleSendMessage(k, c) ==
  /\ Connected(k)
  /\ IF sockets[k] = NoUser
     THEN /\ emitted' = EmitToClient(Event("error", c, ToSocket(k), ErrorPayload(NotAuthenticated)))
          /\ UNCHANGED <<images, runs, conversations, pending, clock, storeDown, sockets, rooms>>
     ELSE /\ Cardinality(ClientCalls) < MaxClientCalls
          /\ StoredMessages(Len(conversations)) + AppendsInFlight < MaxMessages
          /\ pending' = pending \cup {SendCall(sockets[k], k, c)}
          /\ UNCHANGED <<images, runs, conversations, clock, storeDown, sockets, rooms, emitted>>
  /\ UNCHANGED <<handshakes, connectedClients, uploads, args, returned,
               progress, submissions>>

\* ConversationController.sendMessage: POST /conversations/:id/messages
sendMessage(u, c) ==
  /\ Cardinality(ClientCalls) < MaxClientCalls
  /\ StoredMessages(Len(conversations)) + AppendsInFlight < MaxMessages
  /\ pending' = pending \cup {SendCall(u, NoUser, c)}
  /\ UNCHANGED <<images, runs, conversations, clock, storeDown, sockets, rooms, emitted,
               handshakes, connectedClients, uploads, args, returned,
               progress, submissions>>

\* ConversationService.sendMessage, lines 123-142: findById, the permission
\* check, then the message is built on the loaded document
SendFind(call) ==
  LET conversation == conversations[call.conversationId]
      senderType == mapUserRoleToParticipantType(UserRole(call.user))
  IN
  /\ call.op = "send" /\ call.stage = "find"
  /\ IF storeDown
     THEN /\ pending' = pending \ {call}
          /\ emitted' = EmitToClient(Reply(call, "error", ErrorPayload(StoreError)))
     ELSE IF ~validateMessagePermission(conversation, call.user, senderType)
     THEN /\ pending' = pending \ {call}
          /\ emitted' = EmitToClient(Reply(call, "error", ErrorPayload(Forbidden)))
     ELSE /\ pending' = (pending \ {call}) \cup
               {[call EXCEPT !.stage = "save",
                   !.doc = <<Message(clock, call.user, senderType, "text", call.content, 0),
                             conversation.unreadCount + 1>>]}
          /\ UNCHANGED emitted
  /\ UNCHANGED <<images, runs, conversations, clock, storeDown, sockets, rooms,
               handshakes, connectedClients, uploads, args, returned,
               progress, submissions>>

\* handleSendMessage emitting to the room and the participants before the
\* service call has saved the message
SendSaveEmitFirst(call) ==
  /\ call.op = "send" /\ call.stage = "save"
  /\ pending' = pending \ {call}
  /\ conversations' = IF storeDown THEN conversations
                      ELSE PushMessage(call.conversationId, call.doc[1], call.doc[2])
  /\ emitted' = emitted \cup FanOut(call.conversationId, conversations[call.conversationId],
                                    "message-received", call.doc[1])
  /\ UNCHANGED <<images, runs, clock, storeDown, sockets, rooms, handshakes, connectedClients, uploads, args, returned,
               progress, submissions>>

\* ConversationService.sendMessage, lines 144-150, then handleSendMessage,
\* lines 180-197 (the REST controller returns the conversation instead)
SendSave(call) ==
  /\ call.op = "send" /\ call.stage = "save"
  /\ pending' = pending \ {call}
  /\ IF storeDown
     THEN /\ emitted' = EmitToClient(Reply(call, "error", ErrorPayload(StoreError)))
          /\ UNCHANGED conversations
     ELSE /\ conversations' = PushMessage(call.conversationId, call.doc[1], call.doc[2])
          /\ emitted' =
               IF call.socket # NoUser
               THEN emitted \cup FanOut(call.conversationId, conversations[call.conversationId],
                                        "message-received", call.doc[1])
               ELSE EmitToClient(Reply(call, "created", call.doc[1]))
  /\ UNCHANGED <<images, runs, clock, storeDown, sockets, rooms, handshakes, connectedClients, uploads, args, returned,
               progress, submissions>>

\* markMessagesAsRead, lines 290-301: the positions the forEach flips, and the
\* unreadCount the filter then yields on the flipped document
Flipped(messages, userId) ==
  {i \in DOMAIN messages : ~messages[i].isRead /\ messages[i].senderId # userId}

UnreadAfterFlip(messages, userId) ==
  Cardinality({i \in DOMAIN messages :
                 /\ i \notin Flipped(messages, userId)
                 /\ ~messages[i].isRead
                 /\ messages[i].senderId # userId})

\* conversationService.markMessagesAsRead(conversationId, userId) started
ReadCall(u, k, c) == Call("read", 0, u, k, "none", c, "none", "", "find", <<>>)

\* handleMarkAsRead, lines 206-213
handleMarkAsRead(k, c) ==
  /\ Connected(k)
  /\ IF sockets[k] = NoUser
     THEN /\ emitted' = EmitToClient(Event("error", c, ToSocket(k), ErrorPayload(NotAuthenticated)))
          /\ UNCHANGED <<images, runs, conversations, pending, clock, storeDown, sockets, rooms>>
     ELSE /\ Cardinality(ClientCalls) < MaxClientCalls
          /\ pending' = pending \cup {ReadCall(sockets[k], k, c)}
          /\ UNCHANGED <<images, runs, conversations, clock, storeDown, sockets, rooms, emitted>>
  /\ UNCHANGED <<handshakes, connectedClients, uploads, args, returned,
               progress, submissions>>

\* ConversationController.markMessagesAsRead: PATCH /conversations/:id/read
markMessagesAsRead(u, c) ==
  /\ Cardinality(ClientCalls) < MaxClientCalls
  /\ pending' = pending \cup {ReadCall(u, NoUser, c)}
  /\ UNCHANGED <<images, runs, conversations, clock, storeDown, sockets, rooms, emitted,
               handshakes, connectedClients, uploads, args, returned,
               progress, submissions>>

\* what the caller gets once markMessagesAsRead has returned: handleMarkAsRead
\* lines 216-221, or the controller's 200 response
ReadDone(call) ==
  IF call.socket # NoUser
  THEN EmitToClient(Reply(call, "marked-as-read", NoMessage))
         \cup {Event("messages-read", call.conversationId,
                     ToRoom(call.conversationId), NoMessage)}
  ELSE EmitToClient(Reply(call, "ok", NoMessage))

\* markMessagesAsRead, lines 283-297: findById and the forEach; without an
\* unread message of somebody else nothing is saved
ReadFind(call) ==
  LET messages == conversations[call.conversationId].messages
      flipped == Flipped(messages, call.user)
  IN
  /\ call.op = "read" /\ call.stage = "find"
  /\ IF storeDown
     THEN /\ pending' = pending \ {call}
          /\ emitted' = EmitToClient(Reply(call, "error", ErrorPayload(StoreError)))
     ELSE IF flipped = {}
          THEN /\ pending' = pending \ {call}
               /\ emitted' = ReadDone(call)
          ELSE /\ pending' = (pending \ {call}) \cup
                    {[call EXCEPT !.stage = "save",
                        !.doc = <<flipped, Len(messages),
                                  UnreadAfterFlip(messages, call.user)>>]}
               /\ UNCHANGED emitted
  /\ UNCHANGED <<images, runs, conversations, clock, storeDown, sockets, rooms,
               handshakes, connectedClients, uploads, args, returned,
               progress, submissions>>

\* markMessagesAsRead, line 303: save() sets messages.<i>.isRead by position
\* and unreadCount; the update carries the document version, so it fails when
\* a message was pushed since the load
ReadSave(call) ==
  LET c == call.conversationId IN
  /\ call.op = "read" /\ call.stage = "save"
  /\ pending' = pending \ {call}
  /\ IF storeDown \/ Len(conversations[c].messages) # call.doc[2]
     THEN /\ emitted' = EmitToClient(Reply(call, "error",
                 ErrorPayload(IF storeDown THEN StoreError ELSE VersionError)))
          /\ UNCHANGED conversations
     ELSE /\ conversations' = [conversations EXCEPT ![c] =
               [@ EXCEPT !.messages =
                           [i \in DOMAIN @ |->
                              IF i \in call.doc[1] THEN [@[i] EXCEPT !.isRead = TRUE] ELSE @[i]],
                         !.unreadCount = call.doc[3]]]
          /\ emitted' = ReadDone(call)
  /\ UNCHANGED <<images, runs, clock, storeDown, sockets, rooms, handshakes, connectedClients, uploads, args, returned,
               progress, submissions>>

\* --------------------------------------------------------------- gateway
\* client.disconnect(true) in handleConnection: the connection is closed and
\* handleDisconnect finds no client.user
Reject(k) ==
  /\ handshakes' = [handshakes EXCEPT ![k] = Closed]
  /\ UNCHANGED <<sockets, rooms, emitted, connectedClients, uploads, args, returned,
               progress, submissions>>

\* handleConnection, lines 50-58 (both gateways): a client connects with
\* `token` in its handshake; extractToken, and without a token disconnect;
\* otherwise the handler is suspended at jwtService.verifyAsync
handleConnection(k, token) ==
  /\ handshakes[k].pc = "closed"
  /\ handshakes' = [handshakes EXCEPT ![k] =
       IF token = "none" THEN Closed ELSE [token |-> token, pc |-> "verify", rank |-> 0]]
  /\ UNCHANGED <<images, runs, conversations, pending, clock, storeDown, sockets, rooms,
                 emitted, connectedClients, uploads, args, returned,
               progress, submissions>>

\* handleConnection, lines 58-64: verifyAsync throws on a token it rejects
\* (caught at line 90), a payload without id is refused; otherwise the
\* handler is suspended at userService.findById
VerifyToken(k) ==
  /\ handshakes[k].pc = "verify"
  /\ IF handshakes[k].token \in {"invalid", "no-id"}
     THEN Reject(k)
     ELSE /\ handshakes' = [handshakes EXCEPT ![k].pc = "findUser"]
          /\ UNCHANGED <<sockets, rooms, emitted, connectedClients, uploads, args, returned,
               progress, submissions>>
  /\ UNCHANGED <<images, runs, conversations, pending, clock, storeDown, uploads, args, returned,
               progress, submissions>>

\* handleConnection without the `if (!user)` of line 68: whoever the token
\* names is taken for student s1
FindUserUnchecked(k) ==
  LET u == IF handshakes[k].token \in Users THEN handshakes[k].token ELSE "s1" IN
  /\ handshakes[k].pc = "findUser"
  /\ IF storeDown
     THEN Reject(k)
     ELSE /\ handshakes' = [handshakes EXCEPT ![k].pc = "open",
                                             ![k].rank = Cardinality(Sessions(k)) + 1]
          /\ connectedClients' = [connectedClients EXCEPT ![Gateway(k)][u] = k]
          /\ sockets' = [sockets EXCEPT ![k] = u]
          /\ emitted' = IF k \in Sockets
                        THEN EmitToClient(Event("connected", NoConversation, ToSocket(k), NoMessage))
                        ELSE emitted
          /\ UNCHANGED rooms
  /\ UNCHANGED <<images, runs, conversations, pending, clock, storeDown, uploads, args, returned,
               progress, submissions>>

\* handleConnection, lines 66-89: findById throws (caught at line 90) or
\* finds no user: disconnect.  Otherwise the client is put in
\* connectedClients under the user's id and gets its user; the conversation
\* gateway then joins it to user:<id> (membership of that room is having
\* that user on an open socket) and emits 'connected'
FindUser(k) ==
  LET u == handshakes[k].token IN
  /\ handshakes[k].pc = "findUser"
  /\ IF storeDown \/ u \notin Users
     THEN Reject(k)
     ELSE /\ handshakes' = [handshakes EXCEPT ![k].pc = "open",
                                             ![k].rank = Cardinality(Sessions(k)) + 1]
          /\ connectedClients' = [connectedClients EXCEPT ![Gateway(k)][u] = k]
          /\ sockets' = [sockets EXCEPT ![k] = u]
          /\ emitted' = IF k \in Sockets
                        THEN EmitToClient(Event("connected", NoConversation, ToSocket(k), NoMessage))
                        ELSE emitted
          /\ UNCHANGED rooms
  /\ UNCHANGED <<images, runs, conversations, pending, clock, storeDown, uploads, args, returned,
               progress, submissions>>

\* handleDisconnect of an authenticated client (both gateways): the entry
\* under the client's user id is deleted whichever socket it holds;
\* socket.io removes the socket from its rooms.
handleDisconnect(k) ==
  /\ handshakes[k].pc = "open"
  /\ handshakes' = [o \in AllSockets |->
       IF o = k THEN Closed
       ELSE IF o \in Sessions(k) /\ handshakes[o].rank > handshakes[k].rank
       THEN [handshakes[o] EXCEPT !.rank = @ - 1]
       ELSE handshakes[o]]
  /\ connectedClients' = [connectedClients EXCEPT ![Gateway(k)][sockets[k]] = NoSocket]
  /\ sockets' = [sockets EXCEPT ![k] = NoUser]
  /\ rooms' = {m \in rooms : m[2] # k}
  /\ UNCHANGED <<images, runs, conversations, pending, clock, storeDown, emitted, uploads, args, returned,
               progress, submissions>>

\* handleDisconnect of a client whose handleConnection is still suspended
\* at an await: client.user is not set yet, so the handler only logs.  The
\* socket is gone ("verifyGone", "findUserGone"); its handleConnection
\* resumes later.
handleDisconnectEarly(k) ==
  /\ handshakes[k].pc \in {"verify", "findUser"}
  /\ handshakes' = [handshakes EXCEPT ![k].pc =
                      IF @ = "verify" THEN "verifyGone" ELSE "findUserGone"]
  /\ UNCHANGED <<images, runs, conversations, pending, clock, storeDown, sockets, rooms,
                 emitted, connectedClients, uploads, args, returned, progress, submissions>>

\* handleConnection resuming after verifyAsync on a socket that is gone
VerifyTokenGone(k) ==
  /\ handshakes[k].pc = "verifyGone"
  /\ handshakes' = [handshakes EXCEPT ![k] =
                      IF @.token \in {"invalid", "no-id"} THEN Closed
                      ELSE [@ EXCEPT !.pc = "findUserGone"]]
  /\ UNCHANGED <<images, runs, conversations, pending, clock, storeDown, sockets, rooms,
                 emitted, connectedClients, uploads, args, returned, progress, submissions>>

\* handleConnection resuming after userService.findById on a socket that is
\* gone, lines 67-89: nothing looks at the socket's state, the map gets the
\* socket and client.user is set; the emit and the join reach nobody and
\* no disconnect event will follow ("gone")
FindUserGone(k) ==
  LET u == handshakes[k].token IN
  /\ handshakes[k].pc = "findUserGone"
  /\ IF storeDown \/ u \notin Users
     THEN Reject(k)
     ELSE /\ handshakes' = [handshakes EXCEPT ![k].pc = "gone"]
          /\ connectedClients' = [connectedClients EXCEPT ![Gateway(k)][u] = k]
          /\ sockets' = [sockets EXCEPT ![k] = u]
          /\ UNCHANGED <<rooms, emitted>>
  /\ UNCHANGED <<images, runs, conversations, pending, clock, storeDown, uploads, args,
                 returned, progress, submissions>>

\* handleJoinConversation: getConversationById validates the view permission
\* before client.join; any exception is emitted to the client as 'error'
handleJoinConversation(k, c) ==
  /\ Connected(k)
  /\ IF sockets[k] = NoUser
     THEN /\ emitted' = EmitToClient(Event("error", c, ToSocket(k), ErrorPayload(NotAuthenticated)))
          /\ UNCHANGED rooms
     ELSE IF storeDown
     THEN /\ emitted' = EmitToClient(Event("error", c, ToSocket(k), ErrorPayload(StoreError)))
          /\ UNCHANGED rooms
     ELSE IF ~validateViewPermission(conversations[c], sockets[k], UserRole(sockets[k]))
     THEN /\ emitted' = EmitToClient(Event("error", c, ToSocket(k), ErrorPayload(Forbidden)))
          /\ UNCHANGED rooms
     ELSE /\ rooms' = rooms \cup {<<c, k>>}
          /\ emitted' = EmitToClient(Event("joined-conversation", c, ToSocket(k), NoMessage))
  /\ UNCHANGED <<images, runs, conversations, pending, clock, storeDown, sockets,
               handshakes, connectedClients, uploads, args, returned,
               progress, submissions>>

\* handleLeaveConversation
handleLeaveConversation(k, c) ==
  /\ Connected(k)
  /\ rooms' = rooms \ {<<c, k>>}
  /\ emitted' = EmitToClient(Event("left-conversation", c, ToSocket(k), NoMessage))
  /\ UNCHANGED <<images, runs, conversations, pending, clock, storeDown, sockets,
               handshakes, connectedClients, uploads, args, returned,
               progress, submissions>>

\* ------------------------------------------------- pure functions called
\* generateReport(codes) called on the codes args describes, outside a run
ReportCall ==
  /\ returned = <<>>
  /\ returned' = <<generateReport(CodesWith(args[1], args[2]))>>
  /\ UNCHANGED <<images, runs, conversations, pending, clock, storeDown, sockets, rooms,
                 emitted, handshakes, connectedClients, uploads, args,
                 progress, submissions>>

\* convertThirdPartyResponse(response) called on the response in args
ConvertCall ==
  /\ returned = <<>>
  /\ returned' = <<convertThirdPartyResponse(args[1])>>
  /\ UNCHANGED <<images, runs, conversations, pending, clock, storeDown, sockets, rooms,
                 emitted, handshakes, connectedClients, uploads, args,
                 progress, submissions>>

\* ------------------------------------------------------------ challenges
\* the seeded challenges in order: ids, and which have a photo experiment
ChallengeNames == <<"c1", "c2", "c3", "c4", "c5", "c6">>

Challenges ==
  [order \in 1..MaxChallenges |->
     [id |-> ChallengeNames[order], order |-> order,
      hasPhotoExperiment |-> order \in {3, 6, 9, 11}]]

ChallengeIds == {Challenges[order].id : order \in 1..MaxChallenges}

\* challengeModel.findById
Challenge(id) == Challenges[CHOOSE order \in 1..MaxChallenges : Challenges[order].id = id]

\* no progress record of a user for a challenge
NoProgress == [status |-> "none", isAnswerCorrect |-> FALSE, photoUrl |-> FALSE]

\* initializeFirstChallenge, and the record unlockNextChallenge creates
Unlocked == [status |-> "unlocked", isAnswerCorrect |-> FALSE, photoUrl |-> FALSE]

\* the store after unlockNextChallenge(userId, currentOrder) on store p
unlockNextChallenge(p, userId, currentOrder) ==
  IF currentOrder + 1 > MaxChallenges THEN p
  ELSE LET next == Challenges[currentOrder + 1].id IN
       IF p[userId][next] = NoProgress THEN [p EXCEPT ![userId][next] = Unlocked] ELSE p

\* experimentModel.findById in uploadImage, line 243
FindExperiment(experimentId) == experimentId \in Experiments

Submission(op, userId, challengeId, answer) ==
  [op |-> op, userId |-> userId, challengeId |-> challengeId, answer |-> answer]

\* nothing has been submitted yet
NoSubmission == Submission("none", "", "", "")

\* ChallengesService.submitAnswer, lines 51-119
submitAnswer(userId, challengeId, isCorrect) ==
  LET challenge == Challenge(challengeId)
      found == progress[userId][challengeId]
      loaded == IF found = NoProgress THEN Unlocked ELSE found
      answered == [loaded EXCEPT !.isAnswerCorrect = isCorrect]
      answer(text) == Submission("answer", userId, challengeId, text) IN
  /\ IF found = NoProgress /\ challenge.order # 1
     THEN /\ submissions' = answer("Challenge is not accessible")
          /\ UNCHANGED progress
     ELSE IF loaded.status = "completed"
     THEN /\ submissions' = answer("Challenge already completed")
          /\ progress' = [progress EXCEPT ![userId][challengeId] = loaded]
     ELSE IF ~isCorrect
     THEN /\ submissions' = answer("Incorrect answer")
          /\ progress' = [progress EXCEPT ![userId][challengeId] = answered]
     ELSE IF challenge.hasPhotoExperiment
     THEN /\ submissions' = answer("Now submit your photo experiment")
          /\ progress' = [progress EXCEPT ![userId][challengeId] = answered]
     ELSE /\ submissions' = answer("Challenge completed")
          /\ progress' = unlockNextChallenge(
                 [progress EXCEPT ![userId][challengeId] =
                    [answered EXCEPT !.status = "completed"]],
                 userId, challenge.order)
  /\ UNCHANGED <<images, runs, conversations, pending, clock, storeDown, sockets, rooms,
                 emitted, handshakes, connectedClients, uploads, args, returned>>

\* ChallengesService.submitPhoto, lines 121-168, with the uploadImage it
\* awaits (image.service.ts 234-297) called with the challenge id as the
\* experiment id
submitPhoto(userId, challengeId, file) ==
  LET challenge == Challenge(challengeId)
      found == progress[userId][challengeId]
      answer(text) == Submission("photo", userId, challengeId, text)
      result == NewImage(challengeId, userId) IN
  IF ~file \/ ~challenge.hasPhotoExperiment \/ found = NoProgress \/ ~found.isAnswerCorrect
        \/ found.status = "completed" \/ ~FindExperiment(challengeId)
  THEN /\ submissions' = answer(IF ~file THEN "No photo file provided"
                                ELSE IF ~challenge.hasPhotoExperiment
                                THEN "This challenge does not require a photo experiment"
                                ELSE IF found = NoProgress \/ ~found.isAnswerCorrect
                                THEN "You must answer the question correctly"
                                ELSE IF found.status = "completed"
                                THEN "Challenge already completed"
                                ELSE "Experiment not found")
       /\ UNCHANGED <<images, runs, conversations, pending, clock, storeDown, sockets, rooms,
                      emitted, handshakes, connectedClients, uploads, args, returned,
                      progress>>
  ELSE /\ Len(images) < MaxImages
       /\ Len(runs) < MaxRuns
       /\ images' = Append(images, result)
       /\ runs' = Append(runs, NewRun(Len(images) + 1))
       /\ uploads' = Append(uploads, ImageResponseDto(Len(images) + 1, result))
       /\ progress' = unlockNextChallenge(
              [progress EXCEPT ![userId][challengeId] =
                 [found EXCEPT !.status = "completed", !.photoUrl = TRUE]],
              userId, challenge.order)
       /\ submissions' = answer("Photo experiment submitted successfully")
       /\ UNCHANGED <<conversations, pending, clock, storeDown, sockets, rooms, emitted,
                      handshakes, connectedClients, args, returned>>

\* ------------------------------------------------------------ environment
\* time passes
Tick ==
  /\ clock < MaxClock
  /\ clock' = clock + 1
  /\ UNCHANGED <<images, runs, conversations, pending, storeDown, sockets, rooms, emitted,
               handshakes, connectedClients, uploads, args, returned,
               progress, submissions>>

\* the database becomes unreachable / reachable again
StoreFails ==
  /\ ~storeDown
  /\ storeDown' = TRUE
  /\ UNCHANGED <<images, runs, conversations, pending, clock, sockets, rooms, emitted,
               handshakes, connectedClients, uploads, args, returned,
               progress, submissions>>

StoreRecovers ==
  /\ storeDown
  /\ storeDown' = FALSE
  /\ UNCHANGED <<images, runs, conversations, pending, clock, sockets, rooms, emitted,
               handshakes, connectedClients, uploads, args, returned,
               progress, submissions>>

\* ---------------------------------------------------------- specification
Constructed ==
  /\ images = <<>>
  /\ runs = <<>>
  /\ conversations = <<>>
  /\ pending = {}
  /\ clock = 1
  /\ storeDown = FALSE
  /\ sockets = [k \in AllSockets |-> NoUser]
  /\ rooms = {}
  /\ emitted = {}
  /\ handshakes = [k \in AllSockets |-> Closed]
  /\ connectedClients = [g \in Gateways |-> [u \in Users |-> NoSocket]]
  /\ uploads = <<>>
  /\ progress = [u \in Students |-> [c \in ChallengeIds |-> NoProgress]]
  /\ submissions = NoSubmission

\* nothing is being computed
Init ==
  /\ Constructed
  /\ args = <<>>
  /\ returned = <<>>

Upload == \E s \in Students, e \in Experiments : uploadImage(s, e)
Reprocess == \E i \in ImageIds : reprocessImage(i)
ReprocessMissing == reprocessImage(MissingImage)
InstructorFeedback == \E i \in ImageIds : addFeedback(i)
RunLoad == \E r \in RunIds : LoadImage(r)
RunSetProcessing == \E r \in RunIds : SetProcessing(r)
RunFindConversation == \E r \in RunIds : FindConversation(r)
RunCreateExperiment == \E r \in RunIds : CreateExperiment(r)
RunCreateCheck == \E r \in RunIds : CreateCheck(r)
RunCreateSave == \E r \in RunIds : CreateSave(r)
RunDetect == \E r \in RunIds, resp \in DetectorResponses : Detect(r, resp)
RunDetectAny == \E r \in RunIds, resp \in DetectorOutcomes : Detect(r, resp)
RunDetectorSilent == \E r \in RunIds : DetectorSilent(r)
RunSaveResult == \E r \in RunIds : SaveResult(r)
RunCatchLoad == \E r \in RunIds : CatchLoad(r)
RunCatchSave == \E r \in RunIds : CatchSave(r)
BotMessageFind == \E call \in pending : BotFind(call)
BotMessageSave == \E call \in pending : BotSave(call)

Orchestrate ==
  \/ RunLoad \/ RunSetProcessing \/ RunFindConversation
  \/ RunCreateExperiment \/ RunCreateCheck \/ RunCreateSave
  \/ RunDetect \/ RunSaveResult \/ RunCatchLoad \/ RunCatchSave
  \/ BotMessageFind \/ BotMessageSave

DirectCreate ==
  \E u \in Students, e \in Experiments, initialMessage \in BOOLEAN :
    createConversation(u, e, initialMessage)
StudentCreate ==
  \E e \in Experiments, initialMessage \in BOOLEAN : createConversation("s1", e, initialMessage)
DirectCreateExperiment == \E call \in pending : CreateCallExperiment(call)
DirectCreateCheck == \E call \in pending : CreateCallCheck(call)
DirectCreateSave == \E call \in pending : CreateCallSave(call)
GatewayBotMessage ==
  \E c \in ConversationIds, messageType \in {"system"} :
    sendBotMessage(c, messageType, messageType)
ClientSend == \E k \in Sockets, c \in ConversationIds : handleSendMessage(k, c)
RestSend == \E u \in Users, c \in ConversationIds : sendMessage(u, c)
CallSendFind == \E call \in pending : SendFind(call)
CallSendSave == \E call \in pending : SendSave(call)
ClientRead == \E k \in Sockets, c \in ConversationIds : handleMarkAsRead(k, c)
RestRead == \E u \in Users, c \in ConversationIds : markMessagesAsRead(u, c)
CallReadFind == \E call \in pending : ReadFind(call)
CallReadSave == \E call \in pending : ReadSave(call)
Connect == \E k \in AllSockets, token \in BadTokens \cup Students : handleConnection(k, token)
ConnectStudent == \E k \in Sockets, u \in Students : handleConnection(k, u)
ConnectUnverified == \E k \in AllSockets, token \in BadTokens : handleConnection(k, token)
ConnectVerify == \E k \in AllSockets : VerifyToken(k)
ConnectFindUser == \E k \in AllSockets : FindUser(k)
Disconnect == \E k \in AllSockets : handleDisconnect(k)
Join == \E k \in Sockets, c \in ConversationIds : handleJoinConversation(k, c)
Leave == \E k \in Sockets, c \in ConversationIds : handleLeaveConversation(k, c)

\* one upload processed while the store may fail and the instructor may act
Next ==
  \/ Upload \/ InstructorFeedback
  \/ Orchestrate
  \/ StoreFails \/ StoreRecovers

Spec == Init /\ [][Next]_vars

\* overlapping runs and direct createConversation calls while the detector
\* has not answered yet
NextRace ==
  \/ Upload \/ Reprocess
  \/ DirectCreate \/ DirectCreateExperiment \/ DirectCreateCheck \/ DirectCreateSave
  \/ RunLoad \/ RunSetProcessing \/ RunFindConversation
  \/ RunCreateExperiment \/ RunCreateCheck \/ RunCreateSave
  \/ RunCatchLoad \/ RunCatchSave
  \/ BotMessageFind \/ BotMessageSave
  \/ Tick

SpecRace == Init /\ [][NextRace]_vars

\* every writer of Image Records, with bot messages still in flight
NextStatus ==
  \/ Upload \/ Reprocess \/ InstructorFeedback
  \/ RunLoad \/ RunSetProcessing \/ RunFindConversation
  \/ RunCreateExperiment \/ RunCreateCheck \/ RunCreateSave
  \/ RunDetect \/ RunSaveResult \/ RunCatchLoad \/ RunCatchSave
  \/ StoreFails \/ StoreRecovers

SpecStatus == Init /\ [][NextStatus]_vars

\* the conversation store under REST traffic and bot messages
NextConv ==
  \/ DirectCreate \/ DirectCreateExperiment \/ DirectCreateCheck \/ DirectCreateSave
  \/ GatewayBotMessage \/ BotMessageFind \/ BotMessageSave
  \/ RestSend \/ CallSendFind \/ CallSendSave
  \/ RestRead \/ CallReadFind \/ CallReadSave

SpecConv == Init /\ [][NextConv]_vars

\* the rooms of the conversation gateway as students connect, join and leave
NextGateway ==
  \/ DirectCreate \/ DirectCreateExperiment \/ DirectCreateCheck \/ DirectCreateSave
  \/ ConnectStudent \/ ConnectVerify \/ ConnectFindUser \/ Disconnect \/ Join \/ Leave
  \/ StoreFails \/ StoreRecovers

SpecGateway == Init /\ [][NextGateway]_vars

\* send-message of connected students and bot messages while the store may fail
NextFanOut ==
  \/ DirectCreate \/ DirectCreateExperiment \/ DirectCreateCheck \/ DirectCreateSave
  \/ ConnectStudent \/ ConnectVerify \/ ConnectFindUser
  \/ ClientSend \/ CallSendFind \/ CallSendSave
  \/ GatewayBotMessage \/ BotMessageFind \/ BotMessageSave
  \/ StoreFails \/ StoreRecovers

SpecFanOut == Init /\ [][NextFanOut]_vars

\* runs on a stored record and on an id no record has, under store faults
NextMissing ==
  \/ Upload \/ ReprocessMissing
  \/ Orchestrate
  \/ StoreFails \/ StoreRecovers

SpecMissing == Init /\ [][NextMissing]_vars

\* one upload processed with every outcome of the detector call and of the
\* download, a detector that never answers included, while the store may fail
RunSteps ==
  \/ RunLoad \/ RunSetProcessing \/ RunFindConversation
  \/ RunCreateExperiment \/ RunCreateCheck \/ RunCreateSave
  \/ RunDetectAny \/ RunSaveResult \/ RunCatchLoad \/ RunCatchSave
  \/ BotMessageFind \/ BotMessageSave

NextDetector ==
  \/ Upload
  \/ RunSteps
  \/ RunDetectorSilent
  \/ StoreFails \/ StoreRecovers

SpecDetector == Init /\ [][NextDetector]_vars

\* the event loop runs every continuation that is ready
FairDetector == SpecDetector /\ WF_vars(RunSteps)

\* generateReport on every list of at most MaxTotal codes, by its counts
InitReport ==
  /\ Constructed
  /\ args \in {<<total, readable>> : total \in 0..MaxTotal, readable \in 0..MaxTotal}
  /\ args[2] <= args[1]
  /\ returned = <<>>

NextReport == ReportCall

SpecReport == InitReport /\ [][NextReport]_vars

SubmitAnswer == \E u \in Students, c \in ChallengeIds, isCorrect \in BOOLEAN :
                  submitAnswer(u, c, isCorrect)
SubmitPhoto == \E u \in Students, c \in ChallengeIds, file \in BOOLEAN : submitPhoto(u, c, file)

\* students working through the challenges
NextChallenges == SubmitAnswer \/ SubmitPhoto

SpecChallenges == Init /\ [][NextChallenges]_vars

\* POST /conversations is open to every role: the creator becomes the
\* conversation's studentId. A student and an instructor who is not the
\* experiment's instructor create conversations.
Creators == {"s1", "i2"}

AnyoneCreate ==
  \E u \in Creators, e \in Experiments, initialMessage \in BOOLEAN :
    createConversation(u, e, initialMessage)
ConnectUser == \E k \in Sockets, u \in Users : handleConnection(k, u)

\* users of every role connecting and joining conversations anyone created
NextJoin ==
  \/ AnyoneCreate \/ DirectCreateExperiment \/ DirectCreateCheck \/ DirectCreateSave
  \/ ConnectUser \/ ConnectVerify \/ ConnectFindUser \/ Join

SpecJoin == Init /\ [][NextJoin]_vars

DisconnectEarly == \E k \in AllSockets : handleDisconnectEarly(k)
ConnectVerifyGone == \E k \in AllSockets : VerifyTokenGone(k)
ConnectFindUserGone == \E k \in AllSockets : FindUserGone(k)

\* clients that may leave at any time, also while their handshake is being
\* checked
NextLeave ==
  \/ Connect \/ ConnectVerify \/ ConnectFindUser \/ Disconnect
  \/ DisconnectEarly \/ ConnectVerifyGone \/ ConnectFindUserGone

SpecLeave == Init /\ [][NextLeave]_vars

\* appends by clients and by the bot while the clock advances
NextOrder ==
  \/ DirectCreate \/ DirectCreateExperiment \/ DirectCreateCheck \/ DirectCreateSave
  \/ GatewayBotMessage \/ BotMessageFind \/ BotMessageSave
  \/ RestSend \/ CallSendFind \/ CallSendSave
  \/ Tick

SpecOrder == Init /\ [][NextOrder]_vars

\* the bounding boxes with coordinates and sizes up to MaxCoordinate, and the
\* lists of at most MaxListed codes with such boxes
Boxes ==
  {ThirdPartyDetectedCode("code", x, y, width, height) :
     x \in 0..MaxCoordinate, y \in 0..MaxCoordinate,
     width \in 0..MaxCoordinate, height \in 0..MaxCoordinate}

CodeLists == UNION {[1..n -> Boxes] : n \in 0..MaxListed}

\* convertThirdPartyResponse on answers without detected_codes and with
\* every list in CodeLists
InitConvert ==
  /\ Constructed
  /\ args \in {<<[has_codes |-> TRUE, detected_codes |-> list]>> : list \in CodeLists}
              \cup {<<[has_codes |-> FALSE, detected_codes |-> <<>>]>>}
  /\ returned = <<>>

NextConvert == ConvertCall

SpecConvert == InitConvert /\ [][NextConvert]_vars

\* clients with refused tokens on both gateways next to students who are
\* let in, and what each of them can ask the conversation gateway for; the
\* conversations are those of student s1
NextHandshake ==
  \/ ConnectUnverified \/ ConnectStudent \/ ConnectVerify \/ ConnectFindUser
  \/ StudentCreate \/ DirectCreateExperiment \/ DirectCreateCheck \/ DirectCreateSave
  \/ Join
  \/ ClientSend \/ CallSendFind \/ CallSendSave
  \/ ClientRead \/ CallReadFind \/ CallReadSave

SpecHandshake == Init /\ [][NextHandshake]_vars

\* sessions of both gateways opening and closing, the same student on
\* several sockets included
NextSession ==
  \/ Connect \/ ConnectVerify \/ ConnectFindUser \/ Disconnect
  \/ StoreFails \/ StoreRecovers

SpecSession == Init /\ [][NextSession]_vars

\* ================================================================ claims
Terminal == {"completed", "needs_review", "failed"}

SamePair(c, d) ==
  /\ conversations[c].experimentId = conversations[d].experimentId
  /\ conversations[c].studentId = conversations[d].studentId

\* C1: in every reachable state the conversation store holds at most one
\* conversation for each (experiment, student) pair.
C1_OneConversationPerPair ==
  \A c, d \in ConversationIds : SamePair(c, d) => c = d

\* every stored conversation was created by a processUploadedImage run
CreatedByRuns ==
  \A c \in ConversationIds :
     /\ Len(conversations[c].messages) > 0
     /\ conversations[c].messages[1].content = Submitted

\* C2: while only runs create conversations, no run is thrown into its catch
\* block by "Conversation already exists", and runs on the same (experiment,
\* student) pair that resolved a conversation resolved the same one.
C2_RunsResolveSameConversation ==
  CreatedByRuns =>
    \A r, q \in RunIds :
       /\ runs[r].error # AlreadyExists
       /\ (/\ runs[r].conversation # NoConversation
           /\ runs[q].conversation # NoConversation
           /\ images[runs[r].imageId].experimentId = images[runs[q].imageId].experimentId
           /\ images[runs[r].imageId].userId = images[runs[q].imageId].userId)
          => runs[r].conversation = runs[q].conversation

\* C3: a run that has ended does not leave its record in processing (once
\* the only run on a record has ended nothing moves the record out of it).
C3_EndedRunLeftProcessing ==
  \A r \in RunIds :
     (runs[r].pc = "done" /\ runs[r].imageId \in ImageIds)
       => images[runs[r].imageId].processingStatus # "processing"

\* the step a run takes when image.save() at `pc` succeeds
RunSaved(r, i, pcs) ==
  /\ runs[r].imageId = i
  /\ runs[r].pc \in pcs
  /\ runs'[r].pc # runs[r].pc

RunMessages(r, content) ==
  UNION {{<<c, j>> : j \in {k \in DOMAIN conversations[c].messages :
                              /\ conversations[c].messages[k].run = r
                              /\ conversations[c].messages[k].content = content}} :
         c \in ConversationIds}

\* C5: once a run has ended with processingStatus failed and none of its bot
\* messages is still in flight, exactly one error message of that run is
\* persisted.
C5_OneErrorMessagePerFailedRun ==
  \A r \in RunIds :
     (/\ runs[r].pc = "done"
      /\ runs[r].image.processingStatus = "failed"
      /\ images[runs[r].imageId].processingStatus = "failed"
      /\ \A call \in pending : call.run # r)
       => Cardinality(RunMessages(r, "error")) = 1

\* the position of a bot message in the order the orchestrator issues them
IssueOrder(content) ==
  CASE content = "started" -> 1
    [] content \in {"feedback", "error"} -> 2
    [] content = "guidance" -> 3
    [] content = "circuit" -> 4
    [] OTHER -> 0

\* C6: the bot messages of one run are stored in the order the orchestrator
\* issued them.
C6_BotMessagesInIssueOrder ==
  \A c \in ConversationIds :
     LET messages == conversations[c].messages IN
     \A j, k \in DOMAIN messages :
        (j < k /\ messages[j].run # 0 /\ messages[j].run = messages[k].run)
          => IssueOrder(messages[j].content) <= IssueOrder(messages[k].content)

\* message m as stored, whatever its read flag
Unflagged(m) == [m EXCEPT !.isRead = FALSE]

\* C7: every step leaves every conversation's message list a prefix of the
\* new list, up to the isRead flags.
C7_MessagesAppendOnly ==
  [][\A c \in ConversationIds :
       LET old == conversations[c].messages
           new == conversations'[c].messages
       IN /\ Len(old) <= Len(new)
          /\ \A j \in DOMAIN old : Unflagged(new[j]) = Unflagged(old[j])]_vars

\* a bot message and a client message stored by calls that both loaded the
\* conversation before either saved: two unread messages, unreadCount 1
C7_Witness ==
  \E c \in ConversationIds :
     LET messages == conversations[c].messages IN
     /\ Len(messages) = 2
     /\ {messages[1].senderType, messages[2].senderType} \in
          {{"bot", "student"}, {"bot", "instructor"}, {"bot", "admin"}}
     /\ ~messages[1].isRead /\ ~messages[2].isRead
     /\ conversations[c].unreadCount = 1

\* the unread messages of conversation c that `viewer` did not send
UnreadFor(c, viewer) ==
  Cardinality({j \in DOMAIN conversations[c].messages :
                 /\ ~conversations[c].messages[j].isRead
                 /\ conversations[c].messages[j].senderId # viewer})

\* C8: unreadCount equals, for each participant of the conversation, the
\* number of unread messages that participant did not send.
C8_UnreadCountPerViewer ==
  \A c \in ConversationIds :
     \A viewer \in {conversations[c].studentId, conversations[c].instructorId} :
        conversations[c].unreadCount = UnreadFor(c, viewer)

\* the permission rule for user u appending to `conversation`
MayAppend(conversation, u) ==
  CASE u \in Students -> conversation.studentId = u
    [] u \in Instructors -> conversation.instructorId \in {NoUser, u}
    [] OTHER -> TRUE

\* C9: a sendMessage call of a sender the rule excludes ends at the permission
\* check with a Forbidden error and the store unchanged; a call of a sender
\* the rule admits goes on to save, and its save appends the sender's message.
C9_SendMessagePermission ==
  [][\A call \in pending :
       (call.op = "send" /\ call \notin pending') =>
          LET c == call.conversationId
              allowed == MayAppend(conversations[c], call.user)
          IN IF call.stage = "find"
             THEN /\ conversations' = conversations
                  /\ allowed => \E next \in pending' :
                                   /\ next.op = "send" /\ next.stage = "save"
                                   /\ next.user = call.user /\ next.conversationId = c
                  /\ ~allowed =>
                       /\ pending' = pending \ {call}
                       /\ Reply(call, "error", ErrorPayload(Forbidden)) \in emitted'
             ELSE /\ allowed
                  /\ Len(conversations'[c].messages) = Len(conversations[c].messages) + 1
                  /\ conversations'[c].messages[Len(conversations'[c].messages)].senderId
                       = call.user]_vars

\* a student was refused on another student's conversation, which holds a
\* message its own student sent
C9_Witness ==
  \E e \in emitted :
     /\ e.ev = "error" /\ e.message = ErrorPayload(Forbidden)
     /\ e.to.http \in Students
     /\ conversations[e.conversationId].studentId # e.to.http
     /\ \E j \in DOMAIN conversations[e.conversationId].messages :
          /\ conversations[e.conversationId].messages[j].content = "text"
          /\ conversations[e.conversationId].messages[j].senderId
               = conversations[e.conversationId].studentId

\* socket k belongs to a student who is not the student of conversation c
ForeignStudent(k, c) ==
  sockets[k] \in Students /\ conversations[c].studentId # sockets[k]

\* C10: no student's socket is ever in the room of another student's
\* conversation, and a join-conversation of such a socket leaves the rooms
\* and the stores as they were and emits an error event to that socket.
C10_ForeignStudentJoinRefused ==
  /\ [](\A m \in rooms : m[1] \in ConversationIds => ~ForeignStudent(m[2], m[1]))
  /\ [][\A k \in Sockets, c \in ConversationIds :
          (ForeignStudent(k, c) /\ handleJoinConversation(k, c)) =>
             /\ rooms' = rooms
             /\ conversations' = conversations /\ images' = images
             /\ \E e \in emitted' :
                  e.ev = "error" /\ e.to = ToSocket(k) /\ e.conversationId = c]_vars

\* a student's join of another student's conversation was refused while the
\* conversation's own student is in the room
C10_Witness ==
  \E k, o \in Sockets, c \in ConversationIds :
     /\ ForeignStudent(k, c)
     /\ Event("error", c, ToSocket(k), ErrorPayload(Forbidden)) \in emitted
     /\ <<c, k>> \notin rooms
     /\ <<c, o>> \in rooms /\ sockets[o] = conversations[c].studentId

\* the events that carry a message to a conversation room or a personal room
FanOutEvents(events) ==
  {e \in events : e.ev \in {"new-message", "message-received", "bot-message-received"}}

\* C11: every new-message, message-received and bot-message-received event
\* carries a message the conversation store holds, it is emitted by the step
\* that appends that message, and a step that does not append emits none.
C11_FanOutAfterPersist ==
  /\ [](\A e \in FanOutEvents(emitted) :
          \E j \in DOMAIN conversations[e.conversationId].messages :
             Unflagged(conversations[e.conversationId].messages[j]) = e.message)
  /\ [][\A e \in FanOutEvents(emitted') \ FanOutEvents(emitted) :
          conversations'[e.conversationId].messages
            = Append(conversations[e.conversationId].messages, e.message)]_vars

\* a client's message and a bot message were fanned out, and a send-message
\* failed at the store
C11_Witness ==
  /\ \E e \in emitted : e.ev = "message-received" /\ e.to.user \in Students
  /\ \E e \in emitted : e.ev = "bot-message-received"
  /\ \E e \in emitted : e.ev = "error" /\ e.message = ErrorPayload(StoreError)

\* the token of socket k's handshake is one the gateways refuse: none, one
\* verifyAsync rejects, one without id, one of a user the store does not know
RefusedToken(k) == handshakes[k].token \in BadTokens

\* C12: a connection whose token is missing, invalid or names no stored user
\* is never authenticated, never in a gateway's connectedClients, never in a
\* conversation room, never sent 'connected', and its join-conversation,
\* send-message and mark-as-read change neither the stores, the calls in
\* flight nor the rooms: each only emits an error to that socket.
C12_RefusedConnectionInert ==
  /\ [](\A k \in AllSockets : RefusedToken(k) =>
          /\ handshakes[k].pc # "open"
          /\ sockets[k] = NoUser
          /\ \A g \in Gateways, u \in Users : connectedClients[g][u] # k
          /\ \A m \in rooms : m[2] # k)
  /\ [][\A k \in AllSockets : RefusedToken(k) =>
          /\ \A e \in emitted' \ emitted : e.to = ToSocket(k) => e.ev = "error"
          /\ \A call \in pending' \ pending : call.socket # k
          /\ \A c \in ConversationIds :
                (\/ handleJoinConversation(k, c)
                 \/ handleSendMessage(k, c)
                 \/ handleMarkAsRead(k, c)) =>
                   /\ conversations' = conversations /\ images' = images
                   /\ pending' = pending /\ rooms' = rooms
                   /\ Event("error", c, ToSocket(k), ErrorPayload(NotAuthenticated))
                        \in emitted']_vars

\* a client whose token names no stored user asked for a conversation while
\* its handshake was suspended at findById and got the error, a client of
\* the image gateway waits with a refused token, and next to them a student
\* is connected and a message sent from a socket is stored
C12_Witness ==
  /\ \E k \in Sockets, c \in ConversationIds :
       /\ handshakes[k] = [token |-> "unknown", pc |-> "findUser", rank |-> 0]
       /\ Event("error", c, ToSocket(k), ErrorPayload(NotAuthenticated)) \in emitted
  /\ \E p \in LegacySockets : RefusedToken(p) /\ Connected(p)
  /\ \E o \in Sockets : sockets[o] \in Students
  /\ \E c \in ConversationIds, j \in 1..MaxMessages :
       j \in DOMAIN conversations[c].messages /\ conversations[c].messages[j].content = "text"

\* the open sessions of user u on gateway g
SessionsOf(g, u) ==
  {k \in AllSockets : Gateway(k) = g /\ handshakes[k].pc = "open" /\ sockets[k] = u}

\* C13: while a user has sessions connected to a gateway, the gateway's
\* connectedClients entry of that user is the session that authenticated
\* last among them (so a push addressed to the user reaches a live session).
C13_LatestSessionRegistered ==
  \A g \in Gateways, u \in Users : \A k \in SessionsOf(g, u) :
     (\A o \in SessionsOf(g, u) : handshakes[o].rank <= handshakes[k].rank)
        => connectedClients[g][u] = k

\* C14: uploadImage answers in the step that stores the record: the
\* response carries the new record's id and status pending, the record is
\* pending and its run has taken no step; no later step, a failing run
\* included, changes or adds to what an upload caller was answered.
C14_UploadAnswersBeforeRun ==
  /\ [](Len(uploads) = Len(images))
  /\ [][/\ \A i \in DOMAIN uploads : uploads'[i] = uploads[i]
        /\ \A i \in DOMAIN uploads' \ DOMAIN uploads :
              /\ uploads'[i] = [id |-> i, feedback |-> "", processingStatus |-> "pending"]
              /\ images'[i].processingStatus = "pending"
              /\ \E r \in DOMAIN runs' \ DOMAIN runs :
                    runs'[r] = NewRun(i) /\ NewRun(i).pc = "load"]_vars

\* the run of an upload that was answered with pending has ended after an
\* exception, with the record failed or left at processing
C14_Witness ==
  \E r \in DOMAIN runs :
     /\ runs[r].pc = "done" /\ runs[r].caught
     /\ images[runs[r].imageId].processingStatus \in {"failed", "processing"}
     /\ uploads[runs[r].imageId].processingStatus = "pending"

\* the status line 102 computes for a success Result
StatusOf(result) == IF result.unreadableCodes = 0 THEN "completed" ELSE "needs_review"

C16_FeedbackIffDetectorSucceeded ==
  \A r \in RunIds :
     (runs[r].pc = "done" /\ \A call \in pending : call.run # r) =>
        /\ ~runs[r].result.success => RunMessages(r, "feedback") = {}
        /\ (runs[r].result.success /\ ~runs[r].caught) =>
              /\ Cardinality(RunMessages(r, "feedback")) = 1
              /\ Cardinality(RunMessages(r, "circuit")) = 1
              /\ Cardinality(RunMessages(r, "guidance"))
                   = (IF runs[r].result.unreadableCodes > 0 THEN 1 ELSE 0)

\* C17: a run that has ended after persisting a terminal status has issued
\* exactly one sendProcessingComplete, and its payload carries the status
\* and the code counts the run persisted.
C17_OneCompletionPerTerminalRun ==
  \A r \in RunIds :
     (/\ runs[r].pc = "done"
      /\ runs[r].image # NoImage
      /\ runs[r].image.processingStatus \in {"completed", "needs_review", "failed"}
      /\ images[runs[r].imageId].processingStatus = runs[r].image.processingStatus)
       => /\ Len(runs[r].complete) = 1
          /\ runs[r].complete[1].status = runs[r].image.processingStatus
          /\ runs[r].image.processingStatus # "failed" =>
                runs[r].complete[1] = CompletePayload(runs[r].image.processingStatus,
                                                      runs[r].result)

\* C18: a run on an id no record has ends after its findById (or, when that
\* throws, after the findById of the catch block): none of its steps changes
\* a record, a conversation, the calls in flight or the emitted events, and
\* it issues no update, no completion and no bot message.
C18_MissingRecordSilent ==
  /\ [](\A r \in RunIds : runs[r].imageId = MissingImage =>
          /\ runs[r].pc \in {"load", "catchLoad", "done"}
          /\ runs[r].updates = 0 /\ runs[r].complete = <<>>
          /\ runs[r].conversation = NoConversation
          /\ \A call \in pending : call.run # r)
  /\ [][\A r \in RunIds :
          (runs[r].imageId = MissingImage /\ runs'[r] # runs[r]) =>
             /\ images' = images /\ conversations' = conversations
             /\ pending' = pending /\ emitted' = emitted]_vars

\* a run on a missing id has ended through the catch block next to a run on
\* a stored record that has saved its result
C18_Witness ==
  \E r, q \in RunIds :
     /\ runs[r].imageId = MissingImage /\ runs[r].pc = "done" /\ runs[r].caught
     /\ runs[q].imageId \in ImageIds /\ runs[q].pc = "done" /\ runs[q].result.success

\* a ProcessingResult as processImage's callers may rely on it: success with
\* codes, report and consistent counts, or a failure with an error text
WellFormed(result) ==
  /\ ~result.thrown
  /\ IF result.success
     THEN /\ result.error = "" /\ result.report # ""
          /\ result.totalCodes = Len(result.detectedCodes)
          /\ result.readableCodes + result.unreadableCodes = result.totalCodes
     ELSE /\ result.error # ""
          /\ result.detectedCodes = <<>> /\ result.totalCodes = 0

\* C19: for every outcome of the detector call and of the download
\* processImage returns a Result, a success with codes, report and counts or
\* a failure with an error text, and never rejects: the run that awaited it
\* goes on to save the Result, never into its catch block.
C19_ProcessImageAlwaysReturns ==
  /\ [](\A resp \in DetectorOutcomes : WellFormed(processImage(resp)))
  /\ [][\A r \in RunIds :
          (runs[r].pc = "detect" /\ runs'[r].pc \notin {"detect", "detectPending"}) =>
             /\ runs'[r].pc = "saveResult" /\ ~runs'[r].caught
             /\ WellFormed(runs'[r].result)]_vars

\* a run has saved the failure Result of a download whose file write failed
C19_Witness ==
  \E r \in RunIds :
     /\ runs[r].pc = "done" /\ ~runs[r].caught
     /\ ~runs[r].result.success /\ runs[r].result.error = "write error"
     /\ images[runs[r].imageId].processingStatus = "failed"

\* C20: a processImage call whose request the detector never answers, or
\* whose download never completes, eventually returns to the run.
C20_ProcessImageEventuallyReturns ==
  \A r \in 1..MaxRuns :
     (r \in RunIds /\ runs[r].pc = "detectPending")
        ~> (r \in RunIds /\ runs[r].pc # "detectPending")

\* the report the exact ratio readable/total selects
ExactTier(total, readable) ==
  IF total = 0 THEN {"no-codes"}
  ELSE IF readable = total THEN {"one-readable", "all-readable"}
  ELSE IF 4 * readable >= 3 * total THEN {"tier-1"}
  ELSE IF 2 * readable >= total THEN {"tier-2"}
  ELSE {"tier-3"}

\* C21: for total codes of which readable are readable, generateReport
\* returns the no-codes message for total = 0, the all-readable message
\* for readable = total, and otherwise tier-1, tier-2 or tier-3 as the exact
\* ratio readable/total is at least 0.75, at least 0.50, or below.
C21_ReportTierByExactRatio ==
  returned # <<>> => returned[1] \in ExactTier(args[1], args[2])

\* C22: convertThirdPartyResponse returns [] for an answer without
\* detected_codes or with an empty list, and otherwise one code per
\* returned code, in input order, whose points are (x,y), (x+width,y),
\* (x+width,y+height), (x,y+height) in that order.
C22_BoxesToPolygons ==
  returned # <<>> =>
     LET response == args[1]
         codes == returned[1] IN
     /\ (~response.has_codes \/ response.detected_codes = <<>>) => codes = <<>>
     /\ response.has_codes =>
           /\ Len(codes) = Len(response.detected_codes)
           /\ \A i \in DOMAIN response.detected_codes :
                 LET p == response.detected_codes[i].position IN
                 /\ codes[i].data = response.detected_codes[i].data
                 /\ codes[i].points =
                      <<[x |-> p.x, y |-> p.y], [x |-> p.x + p.width, y |-> p.y],
                        [x |-> p.x + p.width, y |-> p.y + p.height],
                        [x |-> p.x, y |-> p.y + p.height]>>

\* two different boxes of non-zero size have been converted
C22_Witness ==
  /\ returned # <<>> /\ Len(returned[1]) = 2
  /\ returned[1][1].points # returned[1][2].points
  /\ \A i \in 1..2 : /\ args[1].detected_codes[i].position.width > 0
                       /\ args[1].detected_codes[i].position.height > 0

\* C23: along every conversation's message list sentAt never decreases, in
\* every reachable state, appends that overlap included.
C23_SentAtNonDecreasing ==
  \A c \in ConversationIds :
    \A i, j \in DOMAIN conversations[c].messages :
      i < j => conversations[c].messages[i].sentAt <= conversations[c].messages[j].sentAt

\* C24: while an Image Record is pending or processing, its processingStatus
\* and feedback are changed only by a step of a run on that record.
C24_OnlyTheRunWritesWhileRunning ==
  [][\A i \in ImageIds :
       (/\ images[i].processingStatus \in {"pending", "processing"}
        /\ \/ images'[i].processingStatus # images[i].processingStatus
           \/ images'[i].feedback # images[i].feedback)
         => \E r \in DOMAIN runs : runs[r].imageId = i /\ runs'[r] # runs[r]]_vars

\* C25: submitPhoto with a file, for a challenge with a photo experiment
\* whose progress record of the user is unlocked with a correct answer,
\* marks that record completed with its photoUrl set and unlocks the next
\* challenge in order.
C25_PhotoCompletesChallenge ==
  [][\A u \in Students, c \in ChallengeIds :
       (/\ Challenge(c).hasPhotoExperiment
        /\ progress[u][c].status = "unlocked" /\ progress[u][c].isAnswerCorrect
        /\ submissions' # submissions
        /\ submissions'.op = "photo" /\ submissions'.userId = u
        /\ submissions'.challengeId = c
        /\ submissions'.answer # "No photo file provided")
         => /\ progress'[u][c].status = "completed" /\ progress'[u][c].photoUrl
            /\ Challenge(c).order < MaxChallenges =>
                  progress'[u][Challenges[Challenge(c).order + 1].id] # NoProgress]_vars

\* C26: for every stored conversation and every user, join-conversation is
\* accepted exactly when send-message by that user passes the append
\* permission rule: the view check and the append check agree, and every
\* answer to a join follows the append rule.
C26_JoinIffMayAppend ==
  /\ [](\A c \in ConversationIds, u \in Users :
          validateViewPermission(conversations[c], u, UserRole(u))
            <=> MayAppend(conversations[c], u))
  /\ [][\A k \in Sockets, c \in ConversationIds :
          LET joined == Event("joined-conversation", c, ToSocket(k), NoMessage)
              refused == Event("error", c, ToSocket(k), ErrorPayload(Forbidden)) IN
          /\ (joined \in emitted' /\ joined \notin emitted)
               => MayAppend(conversations[c], sockets[k])
          /\ (refused \in emitted' /\ refused \notin emitted)
               => ~MayAppend(conversations[c], sockets[k])]_vars

\* one socket has been let into a conversation and another, of an
\* instructor, has just been refused
C26_Witness ==
  \E c \in ConversationIds, k1, k2 \in Sockets :
    /\ <<c, k1>> \in rooms
    /\ Event("error", c, ToSocket(k2), ErrorPayload(Forbidden)) \in emitted
    /\ sockets[k2] \in Instructors

\* C27: when a run that reprocesses a record saves its outcome, the record's
\* detected components and processed-image locator are those of the new
\* run's Result only: none after a failure, whatever an earlier run stored.
C27_ReprocessOutcomeIsTheNewResult ==
  [][\A r \in RunIds :
       (/\ \E q \in 1..(r - 1) : runs[q].imageId = runs[r].imageId
        /\ runs[r].pc = "saveResult" /\ runs'[r].pc = "done")
         => LET result == runs[r].result
                saved == images'[runs[r].imageId] IN
            /\ saved.detectedComponents = result.detectedCodes
            /\ saved.processedImageUrl = result.processedImagePath]_vars

\* C28: the identity -> session map of a gateway never holds a session that
\* has disconnected, however the handshake and the session's disconnect
\* event interleave.
C28_MapHoldsLiveSessionsOnly ==
  \A g \in Gateways, u \in Users :
    connectedClients[g][u] # NoSocket => handshakes[connectedClients[g][u]].pc = "open"

\* user u is neither the student nor the instructor of the conversation, nor
\* an admin
Outsider(u, conversation) ==
  u \notin Admins /\ u # conversation.studentId /\ u # conversation.instructorId

\* C29: a mark-as-read by an authenticated user who is neither the
\* conversation's student, its instructor nor an admin changes no isRead and
\* no unreadCount, and is answered with an error.
C29_OutsiderCannotMarkAsRead ==
  [][\A call \in pending :
       (/\ call.op = "read"
        /\ Outsider(call.user, conversations[call.conversationId])
        /\ call \notin pending')
         => /\ conversations' = conversations
            /\ (\A x \in pending' : x.op # "read" \/ x.user # call.user)
                 => \E e \in emitted' :
                      e.ev = "error" /\ e.to = Reply(call, "error", NoMessage).to]_vars

\* C30: every code of a success Result is readable, so unreadableCodes = 0
\* and readableCodes = totalCodes; no record is ever needs_review, no
\* guidance message is ever issued or stored, and a run that saves a success
\* Result leaves the record completed.
C30_AlwaysReadable ==
  /\ [](/\ \A r \in RunIds :
            runs[r].result.success =>
              /\ \A i \in DOMAIN runs[r].result.detectedCodes :
                    runs[r].result.detectedCodes[i].readable
              /\ runs[r].result.unreadableCodes = 0
              /\ runs[r].result.readableCodes = runs[r].result.totalCodes
        /\ \A i \in ImageIds : images[i].processingStatus # "needs_review"
        /\ \A call \in pending : call.content # "guidance"
        /\ \A c \in ConversationIds : \A m \in DOMAIN conversations[c].messages :
              conversations[c].messages[m].content # "guidance")
  /\ [][\A r \in RunIds :
          (runs[r].result.success /\ runs[r].pc = "saveResult" /\ runs'[r].pc = "done")
            => images'[runs[r].imageId].processingStatus = "completed"]_vars

\* a run has saved a success Result with a code, all its bot messages are
\* stored and the conversation holds its feedback message
C30_Witness ==
  \E r \in RunIds :
     /\ runs[r].pc = "done" /\ runs[r].result.success /\ runs[r].result.totalCodes > 0
     /\ runs[r].result.readableCodes = runs[r].result.totalCodes
     /\ \A call \in pending : call.run # r
     /\ \E c \in ConversationIds : \E m \in DOMAIN conversations[c].messages :
           /\ conversations[c].messages[m].run = r
           /\ conversations[c].messages[m].content = "feedback"

====
